---- MODULE Spec2Model ----
(***************************************************************************)
(* A model of finstream's financial projection engine                      *)
(* (src/src/calculators/first_million.py).                                 *)
(*                                                                         *)
(* Python floats are modelled as exact rationals of unbounded size.  TLC's *)
(* integers are 32 bits wide, so a rational is a sign, a numerator and a   *)
(* denominator, the last two being naturals written as sequences of limbs  *)
(* (least significant first, radix Base).  The rounding error of IEEE      *)
(* doubles (about 1e-16 relative per operation) is not modelled; the       *)
(* properties that allow a tolerance are stated with the tolerance.        *)
(***************************************************************************)
EXTENDS Integers, Sequences, FiniteSets, TLC

(***************************************************************************)
(* Naturals of unbounded size.                                             *)
(*                                                                         *)
(* The operators that build on other operators are reached through one     *)
(* recursive operator, Arith, which keeps the call tree that TLC unfolds   *)
(* linear in the size of the definitions.                                  *)
(***************************************************************************)
Base == 10 * 100

Max(i, j) == IF i >= j THEN i ELSE j
Min(i, j) == IF i <= j THEN i ELSE j

RECURSIVE Arith(_, _)

\* a without its leading (most significant) zero limbs
NNorm(a) == Arith("NNorm", <<a>>)
\* -1, 0 or 1 as a < b, a = b or a > b
NCmp(a, b) == Arith("NCmp", <<a, b>>)
\* a * k + b, for 0 <= k < 2000 * Base
NMulAdd(a, k, b) == Arith("NMulAdd", <<a, k, b>>)
NAdd(a, b) == Arith("NMulAdd", <<a, 1, b>>)
\* a - b, for a >= b
NSub(a, b) == Arith("NSub", <<a, b>>)
NMul(a, b) == Arith("NMul", <<a, b>>)
NPow(a, e) == Arith("NPow", <<a, e>>)
\* [q |-> n \div d, r |-> n % d], for d > 0
NDivMod(n, d) == Arith("NDivMod", <<n, d>>)

RECURSIVE NFromInt(_)
NFromInt(k) == IF k = 0 THEN <<>> ELSE <<k % Base>> \o NFromInt(k \div Base)

RECURSIVE NToInt(_)
NToInt(a) == IF a = <<>> THEN 0 ELSE Head(a) + Base * NToInt(Tail(a))

\* the highest index in lo..hi at which a and b differ, or 0
RECURSIVE TopDiff(_, _, _, _)
TopDiff(a, b, lo, hi) ==
    IF lo > hi THEN 0
    ELSE IF lo = hi THEN (IF a[lo] # b[lo] THEN lo ELSE 0)
    ELSE LET mid == (lo + hi) \div 2
         IN  IF SubSeq(a, mid + 1, hi) # SubSeq(b, mid + 1, hi)
             THEN TopDiff(a, b, mid + 1, hi)
             ELSE TopDiff(a, b, lo, mid)

NNormBody(a) ==
    IF a = <<>> THEN a
    ELSE IF a[Len(a)] # 0 THEN a
    ELSE SubSeq(a, 1, TopDiff(a, <<>> \o [i \in 1..Len(a) |-> 0], 1, Len(a)))

Limb(a, i) == IF i <= Len(a) THEN a[i] ELSE 0

NCmpBody(a, b) ==
    IF Len(a) # Len(b) THEN (IF Len(a) < Len(b) THEN -1 ELSE 1)
    ELSE IF a = b THEN 0
    ELSE IF a[TopDiff(a, b, 1, Len(a))] < b[TopDiff(a, b, 1, Len(a))] THEN -1
    ELSE 1

\* limbs lo..hi of a * k + b with carry c coming in: [d |-> limbs, c |-> carry out]
\* (a * k + b is a + b for k = 1 and a * k for b = <<>>; with k = -1 it is
\* b - a, the carry being a borrow)
RECURSIVE Ripple(_, _, _, _, _, _)
Ripple(a, k, b, lo, hi, c) ==
    IF lo > hi THEN [d |-> <<>>, c |-> c]
    ELSE IF lo = hi
    THEN LET x == Limb(a, lo) * k + Limb(b, lo) + c
         IN  [d |-> <<x % Base>>, c |-> (x - (x % Base)) \div Base]
    ELSE LET mid == (lo + hi) \div 2
             low == Ripple(a, k, b, lo, mid, c)
             high == Ripple(a, k, b, mid + 1, hi, low.c)
         IN  [d |-> low.d \o high.d, c |-> high.c]

NMulAddBody(a, k, b) ==
    LET r == Ripple(a, k, b, 1, Max(Len(a), Len(b)), 0)
    IN  NNorm(r.d \o NFromInt(r.c))

NSubBody(a, b) == NNorm(Ripple(b, -1, a, 1, Len(a), 0).d)

NShift(a, k) == [i \in 1..k |-> 0] \o a

RECURSIVE ConvSum(_, _, _, _, _)
ConvSum(a, b, k, lo, hi) ==
    IF lo > hi THEN 0
    ELSE IF lo = hi THEN a[lo] * b[k + 1 - lo]
    ELSE LET mid == (lo + hi) \div 2
         IN  ConvSum(a, b, k, lo, mid) + ConvSum(a, b, k, mid + 1, hi)

\* the limbs of sum over k of c[k] * Base^(k - 1), for c[k] < Base^4
Carried(c) ==
    LET dg(e) == <<>> \o [k \in 1..Len(c) |-> (c[k] \div e) % Base]
    IN  NAdd(NAdd(dg(1), NShift(dg(Base), 1)),
             NAdd(NShift(dg(Base * Base), 2), NShift(dg(Base * Base * Base), 3)))

NMulBody(a, b) ==
    IF a = <<>> \/ b = <<>> THEN <<>>
    ELSE IF Len(b) <= 2 \/ Len(a) <= 2
    THEN NMulAdd(IF Len(b) <= 2 THEN a ELSE b,
                 NToInt(IF Len(b) <= 2 THEN b ELSE a), <<>>)
    ELSE Carried(<<>> \o [k \in 1..(Len(a) + Len(b) - 1) |->
                    ConvSum(a, b, k, Max(1, k + 1 - Len(b)), Min(Len(a), k))])

NPowBody(a, e) ==
    IF e = 0 THEN <<1>>
    ELSE LET h == NPow(a, e \div 2)
             sq == NMul(h, h)
         IN  IF e % 2 = 0 THEN sq ELSE NMul(sq, a)

\* the largest q in lo..(hi - 1) with q * d <= n, given lo * d <= n < hi * d
RECURSIVE NDivBisect(_, _, _, _)
NDivBisect(n, d, lo, hi) ==
    IF hi - lo <= 1 THEN lo
    ELSE LET mid == (lo + hi) \div 2
         IN  IF NCmp(NMulAdd(d, mid, <<>>), n) > 0
             THEN NDivBisect(n, d, lo, mid)
             ELSE NDivBisect(n, d, mid, hi)

\* long division of rem * Base^Len(low) + low by d, for rem < d:
\* [q |-> the Len(low) quotient limbs, most significant first, r |-> remainder]
RECURSIVE DivStep(_, _, _)
DivStep(rem, low, d) ==
    IF low = <<>> THEN [q |-> <<>>, r |-> rem]
    ELSE IF Len(low) = 1
    THEN LET x == NNorm(low \o rem)
             q == IF NCmp(x, d) < 0 THEN 0 ELSE NDivBisect(x, d, 1, Base)
         IN  [q |-> <<q>>,
              r |-> IF q = 0 THEN x ELSE NSub(x, NMulAdd(d, q, <<>>))]
    ELSE LET h == Len(low) \div 2
             top == DivStep(rem, SubSeq(low, h + 1, Len(low)), d)
             bot == DivStep(top.r, SubSeq(low, 1, h), d)
         IN  [q |-> top.q \o bot.q, r |-> bot.r]

Reverse(a) == <<>> \o [i \in 1..Len(a) |-> a[Len(a) + 1 - i]]

NDivModBody(n, d) ==
    LET dm == DivStep(<<>>, n, d) IN [q |-> NNorm(Reverse(dm.q)), r |-> dm.r]

(***************************************************************************)
(* Rationals: [s |-> sign, n |-> |numerator|, d |-> denominator].          *)
(***************************************************************************)
Zero == [s |-> 0, n |-> <<>>, d |-> <<1>>]

\* what a raising operation yields in place of a number
ZeroDivisionError == [exc |-> "ZeroDivisionError"]

RMk(s, n, d) == IF n = <<>> \/ s = 0 THEN Zero ELSE [s |-> s, n |-> n, d |-> d]

Sgn(k) == IF k < 0 THEN -1 ELSE IF k > 0 THEN 1 ELSE 0
Abs(k) == IF k < 0 THEN -k ELSE k

RInt(k) == RMk(Sgn(k), NFromInt(Abs(k)), <<1>>)
RFrac(p, q) == RMk(Sgn(p), NFromInt(Abs(p)), NFromInt(q))

RNeg(x) == RMk(-x.s, x.n, x.d)
RAbs(x) == RMk(Abs(x.s), x.n, x.d)

RAdd(x, y) == Arith("RAdd", <<x, y>>)
RSub(x, y) == Arith("RAdd", <<x, RNeg(y)>>)
RMul(x, y) == Arith("RMul", <<x, y>>)
RDiv(x, y) == Arith("RDiv", <<x, y>>)
RPow(x, e) == Arith("RPow", <<x, e>>)
\* the sign of x - y
RCmp(x, y) == Arith("RCmp", <<x, y>>)
\* math.ceil: the least integer not below x
Ceil(x) == Arith("Ceil", <<x>>)

RLt(x, y) == RCmp(x, y) < 0
RLe(x, y) == RCmp(x, y) <= 0
REq(x, y) == RCmp(x, y) = 0

\* x and y over one denominator: [a, b |-> numerators, d |-> denominator];
\* the larger denominator when it is a multiple of the other, else the product
Common(x, y) ==
    IF x.d = y.d THEN [a |-> x.n, b |-> y.n, d |-> x.d]
    ELSE LET xBig == NCmp(x.d, y.d) >= 0
             dm == NDivMod(IF xBig THEN x.d ELSE y.d, IF xBig THEN y.d ELSE x.d)
         IN  IF dm.r = <<>>
             THEN [a |-> IF xBig THEN x.n ELSE NMul(x.n, dm.q),
                   b |-> IF xBig THEN NMul(y.n, dm.q) ELSE y.n,
                   d |-> IF xBig THEN x.d ELSE y.d]
             ELSE [a |-> NMul(x.n, y.d), b |-> NMul(y.n, x.d), d |-> NMul(x.d, y.d)]

RAddBody(x, y) ==
    IF x.s = 0 THEN y
    ELSE IF y.s = 0 THEN x
    ELSE LET cm == Common(x, y)
             c == NCmp(cm.a, cm.b)
         IN  IF x.s = y.s THEN RMk(x.s, NAdd(cm.a, cm.b), cm.d)
             ELSE IF c = 0 THEN Zero
             ELSE RMk(IF c > 0 THEN x.s ELSE y.s,
                      NSub(IF c > 0 THEN cm.a ELSE cm.b,
                           IF c > 0 THEN cm.b ELSE cm.a),
                      cm.d)

RMulBody(x, y) == RMk(x.s * y.s, NMul(x.n, y.n), NMul(x.d, y.d))

RDivBody(x, y) ==
    IF y.s = 0 THEN ZeroDivisionError
    ELSE RMk(x.s * y.s, NMul(x.n, y.d), NMul(x.d, y.n))

RPowBody(x, e) ==
    RMk(IF e = 0 \/ (x.s < 0 /\ e % 2 = 0) THEN 1 ELSE x.s,
        NPow(x.n, e), NPow(x.d, e))

RCmpBody(x, y) ==
    IF x.s # y.s THEN (IF x.s < y.s THEN -1 ELSE 1)
    ELSE IF x.s = 0 THEN 0
    ELSE LET cm == Common(x, y) IN x.s * NCmp(cm.a, cm.b)

CeilBody(x) ==
    LET dm == NDivMod(x.n, x.d)
        q == NToInt(dm.q)
    IN  IF x.s = 0 THEN 0
        ELSE IF x.s > 0 THEN (IF dm.r = <<>> THEN q ELSE q + 1)
        ELSE -q

Arith(op, p) ==
    CASE op = "NNorm" -> NNormBody(p[1])
      [] op = "NCmp" -> NCmpBody(p[1], p[2])
      [] op = "NMulAdd" -> NMulAddBody(p[1], p[2], p[3])
      [] op = "NSub" -> NSubBody(p[1], p[2])
      [] op = "NMul" -> NMulBody(p[1], p[2])
      [] op = "NPow" -> NPowBody(p[1], p[2])
      [] op = "NDivMod" -> NDivModBody(p[1], p[2])
      [] op = "RAdd" -> RAddBody(p[1], p[2])
      [] op = "RMul" -> RMulBody(p[1], p[2])
      [] op = "RDiv" -> RDivBody(p[1], p[2])
      [] op = "RPow" -> RPowBody(p[1], p[2])
      [] op = "RCmp" -> RCmpBody(p[1], p[2])
      [] op = "Ceil" -> CeilBody(p[1])

\* |a - b| <= 1e-6 * |b|
WithinTol(a, b) == RLe(RMul(RAbs(RSub(a, b)), RInt(1000000)), RAbs(b))

(***************************************************************************)
(* The closed forms of the engine.                                         *)
(***************************************************************************)
MonthlyRate(annual_return) == RDiv(annual_return, RInt(12))

\* a mutant of InitialFV: the principal discounted instead of compounded
InitialFV_Discounted(initial_amount, annual_return, years) ==
    RDiv(initial_amount, RPow(RAdd(RInt(1), annual_return), years))

\* a mutant of InitialFV: the principal is compounded every month
InitialFV_Monthly(initial_amount, annual_return, years) ==
    RMul(initial_amount,
         RPow(RAdd(RInt(1), RDiv(annual_return, RInt(12))), years * 12))

\* initial_amount * (1 + annual_return) ** years
InitialFV(initial_amount, annual_return, years) ==
    RMul(initial_amount, RPow(RAdd(RInt(1), annual_return), years))

\* a mutant of ContributionFV: the rate test lets a zero rate into the division
ContributionFV_NoZeroBranch(monthly_aport, monthly_rate, months) ==
    IF RLe(Zero, monthly_rate)
    THEN RDiv(RMul(monthly_aport,
                   RSub(RPow(RAdd(RInt(1), monthly_rate), months), RInt(1))),
              monthly_rate)
    ELSE RMul(monthly_aport, RInt(months))

\* a mutant of ContributionFV: the contributions are taken out, not paid in
ContributionFV_Withdrawn(monthly_aport, monthly_rate, months) ==
    IF RLt(Zero, monthly_rate)
    THEN RDiv(RMul(RNeg(monthly_aport),
                   RSub(RPow(RAdd(RInt(1), monthly_rate), months), RInt(1))),
              monthly_rate)
    ELSE RMul(RNeg(monthly_aport), RInt(months))

ContributionFV(monthly_aport, monthly_rate, months) ==
    IF RLt(Zero, monthly_rate)
    THEN RDiv(RMul(monthly_aport,
                   RSub(RPow(RAdd(RInt(1), monthly_rate), months), RInt(1))),
              monthly_rate)
    ELSE RMul(monthly_aport, RInt(months))

calculate_future_value(initial_amount, monthly_aport, years, annual_return) ==
    LET months == years * 12
        monthly_rate == MonthlyRate(annual_return)
        initial_fv == InitialFV(initial_amount, annual_return, years)
        contribution_fv == ContributionFV(monthly_aport, monthly_rate, months)
    IN  IF contribution_fv = ZeroDivisionError THEN ZeroDivisionError
        ELSE RAdd(initial_fv, contribution_fv)

\* a mutant of MonthlyPayment: the "- 1" of the annuity factor forgotten
MonthlyPayment_NoMinusOne(remaining_value, monthly_rate, months) ==
    IF RLt(Zero, monthly_rate)
    THEN RDiv(RMul(remaining_value, monthly_rate),
              RPow(RAdd(RInt(1), monthly_rate), months))
    ELSE RDiv(remaining_value, RInt(months))

\* the payment solved from the future value formula, before any rounding
MonthlyPayment(remaining_value, monthly_rate, months) ==
    IF RLt(Zero, monthly_rate)
    THEN RDiv(RMul(remaining_value, monthly_rate),
              RSub(RPow(RAdd(RInt(1), monthly_rate), months), RInt(1)))
    ELSE RDiv(remaining_value, RInt(months))

\* a mutant of CeilTo100: round(x / 100) * 100, to the nearest and not up
CeilTo100_Nearest(x) == RInt(Ceil(RSub(RDiv(x, RInt(100)), RFrac(1, 2))) * 100)

\* a mutant of CeilTo100: a negative result is replaced by 0
CeilTo100_NotNegative(x) == RInt(Max(Ceil(RDiv(x, RInt(100))) * 100, 0))

\* ceil(x / 100) * 100
CeilTo100(x) == RInt(Ceil(RDiv(x, RInt(100))) * 100)

(***************************************************************************)
(* The state: the engine function being run, its arguments, the place in   *)
(* its code, its locals and what it returned.                              *)
(***************************************************************************)
VARIABLES
    fn,                \* the engine function called
    args,              \* its arguments
    pc,                \* the place in its code; "done" or "raised" at the end
    ret,               \* what it returned or raised
    monthly_payment,   \* calculate_minimum_aport: the payment before rounding
    current_amount,    \* the balance of the month-by-month loops
    total_months,      \* calculate_time_to_goal: months simulated
    hist,              \* the balance after 0, 1, 2, ... months (history)
    month,             \* create_investment_timeline: the loop variable
    data,              \* create_investment_timeline: the rows appended
    min_years_needed,  \* calculate_year_ranges: the low end of the search
    max_years_needed,  \* calculate_year_ranges: the high end of the search
    year_ranges,       \* calculate_year_ranges: the list being built
    result,            \* render_first_million: what calculate_time_to_goal gave
    self_allocations,  \* BudgetGoal: self.allocations
    total,             \* BudgetGoal.__post_init__: the sum of the percentages
    position,          \* BudgetGoal.__post_init__: the item the loop is at
    transaction,       \* Transaction: the fields of self
    session,           \* st.session_state: budget_goal and budget_goals
    saved_goals,       \* the budget goals file written by save_budget_state
    caller,            \* the function that called the one being run
    calls,             \* history: the mappings passed to save_budget_goals
    attempt,           \* _make_request: the loop variable
    responses,         \* history: the answers to the HTTP requests issued
    slept,             \* history: the seconds passed to time.sleep
    cache,             \* InMemoryCache: self.cache
    timestamps,        \* InMemoryCache: self.timestamps
    lock,              \* InMemoryCache: the thread holding self.lock, or None
    now,               \* the clock read by datetime.now().timestamp()
    threads,           \* each thread's place in the cache code and its locals
    last_set           \* history: when each key was last set since a clear

vars == <<fn, args, pc, ret, monthly_payment, current_amount, total_months,
          hist, month, data, min_years_needed, max_years_needed, year_ranges,
          result, self_allocations, total, position, transaction, session,
          saved_goals, caller, calls, attempt, responses, slept, cache,
          timestamps, lock, now, threads, last_set>>

searchVars == <<min_years_needed, max_years_needed, year_ranges>>

goalVars == <<self_allocations, total, position>>

txVars == <<transaction>>

sessionVars == <<session, saved_goals, caller, calls>>

apiVars == <<attempt, responses, slept>>

cacheVars == <<cache, timestamps, lock, now, threads, last_set>>

serviceVars == <<apiVars, cacheVars>>

\* what the engine leaves alone: the state of the models, of the pages and of
\* the services
appVars == <<goalVars, txVars, sessionVars, serviceVars>>

loopVars == <<current_amount, total_months, hist, month, data, searchVars,
              appVars>>

\* what the models leave alone: the locals of the engine and the services
engineVars == <<monthly_payment, current_amount, total_months, hist, month,
                data, searchVars, result, serviceVars>>

\* what the services leave alone: the engine, the models and the pages
restVars == <<monthly_payment, current_amount, total_months, hist, month,
              data, searchVars, result, goalVars, txVars, sessionVars>>

\* a local not yet assigned, a function not yet returned
NoValue == [unset |-> TRUE]

\* Python's None
None == [py |-> "None"]

\* no request under way, an empty cache nobody is using
NoService ==
    /\ attempt = 0 /\ responses = <<>> /\ slept = <<>>
    /\ cache = <<>> /\ timestamps = <<>> /\ lock = None
    /\ now = 0 /\ threads = <<>> /\ last_set = <<>>

NoLoop ==
    /\ NoService
    /\ current_amount = NoValue
    /\ total_months = 0
    /\ hist = <<>>
    /\ month = 0
    /\ data = <<>>
    /\ min_years_needed = 0
    /\ max_years_needed = 0
    /\ result = NoValue
    /\ year_ranges = <<>>
    /\ self_allocations = NoValue
    /\ total = NoValue
    /\ position = 0
    /\ transaction = NoValue
    /\ session = NoValue
    /\ saved_goals = NoValue
    /\ caller = NoValue
    /\ calls = <<>>

MaxYears == 3
Amounts == {0, 1000, 10000}
Aports == {0, 100, 250}
Goals == {0, 5000, 1000000}
RatesPct == {0, 6, 10}

Rate(pct) == RFrac(pct, 100)

FVArgs ==
    { [initial_amount |-> RInt(i), monthly_aport |-> RInt(a), years |-> y,
       annual_return |-> Rate(r)] :
        i \in Amounts, a \in Aports, y \in 0..MaxYears, r \in RatesPct }

AportArgs ==
    { [initial_amount |-> RInt(i), desired_amount |-> RInt(g), years |-> y,
       annual_return |-> Rate(r)] :
        i \in Amounts, g \in Goals, y \in 0..MaxYears, r \in RatesPct }

InitFV ==
    /\ \/ fn = "calculate_future_value" /\ args \in FVArgs
       \/ fn = "calculate_minimum_aport" /\ args \in AportArgs
    /\ pc = "call"
    /\ ret = NoValue
    /\ monthly_payment = NoValue
    /\ NoLoop

\* calculate_future_value, called and returned
FutureValue ==
    /\ fn = "calculate_future_value" /\ pc = "call"
    /\ ret' = calculate_future_value(args.initial_amount, args.monthly_aport,
                                     args.years, args.annual_return)
    /\ pc' = "done"
    /\ UNCHANGED <<fn, args, result, monthly_payment, loopVars>>

\* calculate_minimum_aport, called and returned (or raising)
MinimumAport ==
    /\ fn = "calculate_minimum_aport" /\ pc = "call"
    /\ LET months == args.years * 12
           monthly_rate == MonthlyRate(args.annual_return)
           future_value_initial ==
               InitialFV(args.initial_amount, args.annual_return, args.years)
           remaining_value == RSub(args.desired_amount, future_value_initial)
           payment == MonthlyPayment(remaining_value, monthly_rate, months)
       IN  /\ monthly_payment' = payment
           /\ ret' = IF payment = ZeroDivisionError THEN ZeroDivisionError
                     ELSE CeilTo100(payment)
    /\ pc' = "done"
    /\ UNCHANGED <<fn, args, result, loopVars>>

NextFV == FutureValue \/ MinimumAport

SpecFV == InitFV /\ [][NextFV]_vars

(***************************************************************************)
(* The month-by-month loops.  One month: the contribution is deposited,    *)
(* then interest is computed on the balance after the deposit and added.   *)
(***************************************************************************)
Compound(amount, monthly_investment, monthly_rate) ==
    LET deposited == RAdd(amount, monthly_investment)
        interest == RMul(deposited, monthly_rate)
    IN  [amount |-> RAdd(deposited, interest), interest |-> interest]

\* a mutant of TotalInvested: the contribution of the month is not counted
TotalInvested_Lagging(initial_amount, monthly_investment, months) ==
    RAdd(initial_amount, RMul(monthly_investment, RInt(months - 1)))

\* initial_amount + (monthly_investment * months)
TotalInvested(initial_amount, monthly_investment, months) ==
    RAdd(initial_amount, RMul(monthly_investment, RInt(months)))

(***************************************************************************)
(* create_investment_timeline                                              *)
(***************************************************************************)
\* a mutant of Row: the balance is recorded without the interest of the month
Row_BeforeInterest(month_, amount, total_invested, interest) ==
    [Month |-> month_,
     TotalAmount |-> RSub(amount, interest),
     TotalInvested |-> total_invested,
     TotalReturns |-> RSub(amount, total_invested),
     MonthlyReturn |-> interest]

\* the row appended for a month of the loop
Row(month_, amount, total_invested, interest) ==
    [Month |-> month_,
     TotalAmount |-> amount,
     TotalInvested |-> total_invested,
     TotalReturns |-> RSub(amount, total_invested),
     MonthlyReturn |-> interest]

\* a mutant of InRange: the last month of the range is left out
InRange_Short(month_, years) == month_ < years * 12

\* month in range(1, (years * 12) + 1), for month >= 1
InRange(month_, years) == month_ <= years * 12

TimelineArgs ==
    { [initial_amount |-> RInt(i), monthly_investment |-> RInt(a), years |-> y,
       annual_return |-> Rate(r)] :
        i \in Amounts, a \in Aports, y \in 0..MaxYears, r \in RatesPct }

InitTimeline ==
    /\ fn = "create_investment_timeline" /\ args \in TimelineArgs
    /\ pc = "call"
    /\ ret = NoValue
    /\ monthly_payment = NoValue
    /\ NoLoop

\* the row of month 0 is appended
TimelineBegin ==
    /\ fn = "create_investment_timeline" /\ pc = "call"
    /\ current_amount' = args.initial_amount
    /\ data' = << [Month |-> 0,
                   TotalAmount |-> args.initial_amount,
                   TotalInvested |-> args.initial_amount,
                   TotalReturns |-> Zero,
                   MonthlyReturn |-> Zero] >>
    /\ month' = 1
    /\ pc' = "loop"
    /\ UNCHANGED <<fn, args, result, appVars, ret, monthly_payment, total_months, hist, searchVars>>

\* one pass of the loop over range(1, years * 12 + 1)
TimelineMonth ==
    /\ fn = "create_investment_timeline" /\ pc = "loop"
    /\ InRange(month, args.years)
    /\ LET step == Compound(current_amount, args.monthly_investment,
                            MonthlyRate(args.annual_return))
           total_invested == TotalInvested(args.initial_amount,
                                           args.monthly_investment, month)
       IN  /\ current_amount' = step.amount
           /\ data' = Append(data, Row(month, step.amount, total_invested,
                                       step.interest))
    /\ month' = month + 1
    /\ UNCHANGED <<fn, args, result, appVars, pc, ret, monthly_payment, total_months, hist, searchVars>>

\* the range is exhausted: the rows are returned
TimelineReturn ==
    /\ fn = "create_investment_timeline" /\ pc = "loop"
    /\ ~InRange(month, args.years)
    /\ ret' = data
    /\ pc' = "done"
    /\ UNCHANGED <<fn, args, result, monthly_payment, loopVars>>

NextTimeline == TimelineBegin \/ TimelineMonth \/ TimelineReturn

SpecTimeline == InitTimeline /\ [][NextTimeline]_vars

(***************************************************************************)
(* calculate_time_to_goal                                                  *)
(***************************************************************************)
MaxMonths == 1200

\* a mutant of BelowGoal: the loop goes on while the goal is not exceeded
BelowGoal_OrEqual(amount, goal_amount) == RLe(amount, goal_amount)

\* the loop test, current_amount < goal_amount
BelowGoal(amount, goal_amount) == RLt(amount, goal_amount)

\* a mutant of OverLimit: the limit test is off by one
OverLimit_OffByOne(months) == months >= MaxMonths

\* the limit test, total_months > 1200
OverLimit(months) == months > MaxMonths

TimeArgsOf(initials, investments, rates, goals) ==
    { [initial_amount |-> RInt(i), monthly_investment |-> RInt(a),
       annual_return |-> r, goal_amount |-> RInt(g)] :
        i \in initials, a \in investments, r \in rates, g \in goals }

\* without growth beyond the deposits (the limit of 1200 months is reached),
\* the unreachable goal of the specification, and with compound growth
TimeArgs ==
    TimeArgsOf({0, 1000}, {0, 1}, {Zero}, {1000, 1200, 1201})
        \cup TimeArgsOf({0}, {0}, {RFrac(1, 100)}, {1000000})
        \cup TimeArgsOf({0, 1000}, {100, 500}, {Rate(1), Rate(10)}, {1000, 5000})

InitTime ==
    /\ fn = "calculate_time_to_goal" /\ args \in TimeArgs
    /\ pc = "call"
    /\ ret = NoValue
    /\ monthly_payment = NoValue
    /\ NoLoop

TimeBegin ==
    /\ fn = "calculate_time_to_goal" /\ pc = "call"
    /\ total_months' = 0
    /\ current_amount' = args.initial_amount
    /\ hist' = <<args.initial_amount>>
    /\ pc' = "loop"
    /\ UNCHANGED <<fn, args, result, appVars, ret, monthly_payment, month, data, searchVars>>

\* one pass of the while loop, with its limit test
TimeMonth ==
    /\ fn = "calculate_time_to_goal" /\ pc = "loop"
    /\ BelowGoal(current_amount, args.goal_amount)
    /\ LET step == Compound(current_amount, args.monthly_investment,
                            MonthlyRate(args.annual_return))
       IN  /\ current_amount' = step.amount
           /\ hist' = Append(hist, step.amount)
    /\ total_months' = total_months + 1
    /\ IF OverLimit(total_months')
       THEN pc' = "done" /\ ret' = None
       ELSE pc' = "loop" /\ UNCHANGED ret
    /\ UNCHANGED <<fn, args, result, appVars, monthly_payment, month, data, searchVars>>

\* the loop test fails: the duration and the totals are returned
TimeReturn ==
    /\ fn = "calculate_time_to_goal" /\ pc = "loop"
    /\ ~BelowGoal(current_amount, args.goal_amount)
    /\ LET total_invested == TotalInvested(args.initial_amount,
                                           args.monthly_investment, total_months)
       IN  ret' = [years |-> total_months \div 12,
                   months |-> total_months % 12,
                   current_amount |-> current_amount,
                   total_invested |-> total_invested,
                   total_interest |-> RSub(current_amount, total_invested)]
    /\ pc' = "done"
    /\ UNCHANGED <<fn, args, result, monthly_payment, loopVars>>

NextTime == TimeBegin \/ TimeMonth \/ TimeReturn

SpecTime == InitTime /\ [][NextTime]_vars

(***************************************************************************)
(* calculate_required_monthly_investment: the payment from the closed      *)
(* form, then the months simulated with it.  The inputs are those of the   *)
(* goal form: initial >= 0, goal >= 100000, years >= 1, a rate of 0..100%. *)
(***************************************************************************)
RequiredArgs ==
    [initial_amount : {RInt(0), RInt(150000), RInt(200000)},
     years : 1..MaxYears,
     annual_return : {Rate(0), Rate(6), Rate(10)},
     goal_amount : {RInt(100000), RInt(1000000)}]

InitRequired ==
    /\ fn = "calculate_required_monthly_investment" /\ args \in RequiredArgs
    /\ pc = "call"
    /\ ret = NoValue
    /\ monthly_payment = NoValue
    /\ NoLoop

\* the payment is computed, the simulation starts from the initial amount
RequiredPayment ==
    /\ fn = "calculate_required_monthly_investment" /\ pc = "call"
    /\ LET months == args.years * 12
           monthly_rate == MonthlyRate(args.annual_return)
           future_value_initial ==
               InitialFV(args.initial_amount, args.annual_return, args.years)
           remaining_value == RSub(args.goal_amount, future_value_initial)
       IN  monthly_payment' = MonthlyPayment(remaining_value, monthly_rate, months)
    /\ IF monthly_payment' = ZeroDivisionError
       THEN pc' = "raised" /\ ret' = ZeroDivisionError
                          /\ UNCHANGED <<current_amount, month>>
       ELSE pc' = "loop" /\ current_amount' = args.initial_amount
                        /\ month' = 0 /\ UNCHANGED ret
    /\ UNCHANGED <<fn, args, result, appVars, total_months, hist, data, searchVars>>

\* one pass of the for loop over range(months)
RequiredMonth ==
    /\ fn = "calculate_required_monthly_investment" /\ pc = "loop"
    /\ month < args.years * 12
    /\ current_amount' = Compound(current_amount, monthly_payment,
                                  MonthlyRate(args.annual_return)).amount
    /\ month' = month + 1
    /\ UNCHANGED <<fn, args, result, appVars, pc, ret, monthly_payment,
                   total_months, hist, data, searchVars>>

\* the loop is over: the payment and the totals are returned
RequiredReturn ==
    /\ fn = "calculate_required_monthly_investment" /\ pc = "loop"
    /\ ~(month < args.years * 12)
    /\ LET total_invested == TotalInvested(args.initial_amount, monthly_payment,
                                           args.years * 12)
       IN  ret' = [monthly_payment |-> monthly_payment,
                   current_amount |-> current_amount,
                   total_invested |-> total_invested,
                   total_interest |-> RSub(current_amount, total_invested)]
    /\ pc' = "done"
    /\ UNCHANGED <<fn, args, result, monthly_payment, loopVars>>

NextRequired == RequiredPayment \/ RequiredMonth \/ RequiredReturn

SpecRequired == InitRequired /\ [][NextRequired]_vars

(***************************************************************************)
(* The engine called with numbers outside its domain: a negative amount,   *)
(* a negative annual rate, years that are not positive where the           *)
(* operation divides by them.                                              *)
(***************************************************************************)
\* the call has a negative amount, a negative annual rate, or years that are
\* not positive where positive years are required
InvalidInput(f, a) ==
    \/ /\ f = "calculate_future_value"
       /\ \/ RLt(a.initial_amount, Zero) \/ RLt(a.monthly_aport, Zero)
          \/ RLt(a.annual_return, Zero) \/ a.years < 0
    \/ /\ f = "calculate_minimum_aport"
       /\ \/ RLt(a.initial_amount, Zero) \/ RLt(a.desired_amount, Zero)
          \/ RLt(a.annual_return, Zero) \/ a.years <= 0
    \/ /\ f = "calculate_time_to_goal"
       /\ \/ RLt(a.initial_amount, Zero) \/ RLt(a.monthly_investment, Zero)
          \/ RLt(a.annual_return, Zero) \/ RLt(a.goal_amount, Zero)

InvalidFVArgs ==
    { a \in [initial_amount : {RInt(i) : i \in Amounts \cup {-1000}},
             monthly_aport : {RInt(i) : i \in Aports \cup {-100}},
             years : 0..MaxYears,
             annual_return : {Rate(r) : r \in RatesPct \cup {-6}}] :
        InvalidInput("calculate_future_value", a) }

InvalidAportArgs ==
    { a \in [initial_amount : {RInt(i) : i \in Amounts \cup {-1000}},
             desired_amount : {RInt(i) : i \in Goals \cup {-5000}},
             years : 0..MaxYears,
             annual_return : {Rate(r) : r \in RatesPct \cup {-6}}] :
        InvalidInput("calculate_minimum_aport", a) }

\* a negative principal that the deposits make up for, and a negative goal
\* that is met at once
InvalidTimeArgs ==
    { a \in TimeArgsOf({-1000}, {100, 500}, {Zero, Rate(6)}, {1000})
              \cup TimeArgsOf({-1000, 0}, {-100}, {Rate(-6), Rate(6)}, {-5000}) :
        InvalidInput("calculate_time_to_goal", a) }

InitInvalid ==
    /\ \/ fn = "calculate_future_value" /\ args \in InvalidFVArgs
       \/ fn = "calculate_minimum_aport" /\ args \in InvalidAportArgs
       \/ fn = "calculate_time_to_goal" /\ args \in InvalidTimeArgs
    /\ pc = "call"
    /\ ret = NoValue
    /\ monthly_payment = NoValue
    /\ NoLoop

NextInvalid == NextFV \/ NextTime

SpecInvalid == InitInvalid /\ [][NextInvalid]_vars

(***************************************************************************)
(* render_first_million, the "time to goal" mode: calculate_time_to_goal   *)
(* is called; when it gives a result, the summary is shown and the chart   *)
(* is drawn from create_investment_timeline over the years of the result,  *)
(* a started year counted whole.                                           *)
(***************************************************************************)
\* inputs whose goal is met at once, within the first years, or never
PageArgs ==
    TimeArgsOf({0, 1000}, {100, 500}, {Zero, Rate(1), Rate(10)}, {0, 1000, 5000})
        \cup TimeArgsOf({0}, {0}, {RFrac(1, 100)}, {1000000})

InitPage ==
    /\ fn = "calculate_time_to_goal" /\ args \in PageArgs
    /\ pc = "call"
    /\ ret = NoValue
    /\ monthly_payment = NoValue
    /\ NoLoop

\* years + (1 if months > 0 else 0)
ChartYears(years, months) == years + (IF months > 0 THEN 1 ELSE 0)

\* if result: the tuple is unpacked and create_investment_timeline is called
RenderResult ==
    /\ fn = "calculate_time_to_goal" /\ pc = "done"
    /\ result = NoValue
    /\ ret # None
    /\ result' = ret
    /\ fn' = "create_investment_timeline"
    /\ args' = [initial_amount |-> args.initial_amount,
                monthly_investment |-> args.monthly_investment,
                years |-> ChartYears(ret.years, ret.months),
                annual_return |-> args.annual_return]
    /\ pc' = "call"
    /\ ret' = NoValue
    /\ UNCHANGED <<monthly_payment, loopVars>>

\* else: the error message, no chart
RenderError ==
    /\ fn = "calculate_time_to_goal" /\ pc = "done"
    /\ result = NoValue
    /\ ret = None
    /\ result' = None
    /\ UNCHANGED <<fn, args, pc, ret, monthly_payment, loopVars>>

NextPage == NextTime \/ RenderResult \/ RenderError \/ NextTimeline

SpecPage == InitPage /\ [][NextPage]_vars

(***************************************************************************)
(* calculate_year_ranges                                                   *)
(***************************************************************************)
ValueError == [exc |-> "ValueError"]

\* (min_years, max_years, num_points): the defaults of the signature
DefaultConfig == <<5, 40, 7>>

ShortConfigs == {<<1, MaxYears, 2>>, <<1, MaxYears + 1, 3>>}

\* an empty span of years, and a single point
EdgeConfigs == {<<MaxYears, MaxYears, 2>>, <<1, MaxYears, 1>>}

YearArgsOf(initials, goals, incomes, rates, configs) ==
    { [initial_amount |-> RInt(i), desired_amount |-> RInt(g),
       monthly_income |-> RInt(m), annual_return |-> Rate(r),
       min_years |-> c[1], max_years |-> c[2], num_points |-> c[3]] :
        i \in initials, g \in goals, m \in incomes, r \in rates, c \in configs }

YearArgs ==
    YearArgsOf({0, 1000}, {1000000}, {0, 5000, 10000, 20000}, {0, 10},
               {DefaultConfig})
        \cup YearArgsOf({0, 1000}, {5000, 1000000}, {0, 250, 5000}, {0, 10},
                        ShortConfigs)
        \cup YearArgsOf({0}, {5000}, {0, 5000}, {10}, EdgeConfigs)

InitYears ==
    /\ fn = "calculate_year_ranges" /\ args \in YearArgs
    /\ pc = "call"
    /\ ret = NoValue
    /\ monthly_payment = NoValue
    /\ NoLoop

\* a mutant of MaxMonthlyInvestment: the whole income is invested
MaxMonthlyInvestment_All(monthly_income) == monthly_income

\* max_monthly_investment = monthly_income * 0.5
MaxMonthlyInvestment(monthly_income) == RMul(monthly_income, RFrac(1, 2))

YearsBegin ==
    /\ fn = "calculate_year_ranges" /\ pc = "call"
    /\ min_years_needed' = args.min_years
    /\ max_years_needed' = args.max_years
    /\ pc' = "search"
    /\ UNCHANGED <<fn, args, result, appVars, ret, monthly_payment, current_amount, total_months,
                   hist, month, data, year_ranges>>

\* one pass of the binary search
YearsSearch ==
    /\ fn = "calculate_year_ranges" /\ pc = "search"
    /\ min_years_needed < max_years_needed
    /\ LET mid_years == (min_years_needed + max_years_needed) \div 2
           future_value ==
               calculate_future_value(args.initial_amount,
                                      MaxMonthlyInvestment(args.monthly_income),
                                      mid_years, args.annual_return)
       IN  IF RLe(args.desired_amount, future_value)
           THEN max_years_needed' = mid_years /\ UNCHANGED min_years_needed
           ELSE min_years_needed' = mid_years + 1 /\ UNCHANGED max_years_needed
    /\ UNCHANGED <<fn, args, result, appVars, pc, ret, monthly_payment, current_amount,
                   total_months, hist, month, data, year_ranges>>

\* a mutant of MinRange: the window is not cut at min_years
MinRange_Unclamped == min_years_needed - 5

MinRange == Max(args.min_years, min_years_needed - 5)
MaxRange == Min(args.max_years, min_years_needed + 20)

\* a mutant of RangeList: the range stops before stop
RangeList_Exclusive(start, stop, step) ==
    [i \in 1..((stop - 1 - start) \div step + 1) |-> start + (i - 1) * step]

\* list(range(start, stop + 1, step))
RangeList(start, stop, step) ==
    [i \in 1..((stop - start) \div step + 1) |-> start + (i - 1) * step]

\* the search is over: the window and the evenly spaced points
YearsWindow ==
    /\ fn = "calculate_year_ranges" /\ pc = "search"
    /\ ~(min_years_needed < max_years_needed)
    /\ IF args.num_points - 1 = 0
       THEN pc' = "raised" /\ ret' = ZeroDivisionError /\ UNCHANGED year_ranges
       ELSE LET step == Max((MaxRange - MinRange) \div (args.num_points - 1), 1)
            IN  /\ year_ranges' = RangeList(MinRange, MaxRange, step)
                /\ pc' = "adjust"
                /\ UNCHANGED ret
    /\ UNCHANGED <<fn, args, result, appVars, monthly_payment, current_amount, total_months,
                   hist, month, data, min_years_needed, max_years_needed>>

\* s.pop(idx), idx counted from 0
Pop(s, idx) == SubSeq(s, 1, idx) \o SubSeq(s, idx + 2, Len(s))

\* s.insert(idx, x), idx counted from 0
Insert(s, idx, x) == SubSeq(s, 1, idx) \o <<x>> \o SubSeq(s, idx + 1, Len(s))

\* one pass of the first while loop: a point is removed from the middle
YearsPop ==
    /\ fn = "calculate_year_ranges" /\ pc = "adjust"
    /\ Len(year_ranges) > args.num_points
    /\ year_ranges' = Pop(year_ranges, Len(year_ranges) \div 2)
    /\ UNCHANGED <<fn, args, result, appVars, pc, ret, monthly_payment, current_amount,
                   total_months, hist, month, data, min_years_needed,
                   max_years_needed>>

\* the gap after the element of index i, counted from 0
Gap(s, i) == s[i + 2] - s[i + 1]

\* max(gaps): the index, counted from 0, of the largest gap, the last of them
\* when several are as large
MaxGapIndex(s) ==
    CHOOSE i \in 0..(Len(s) - 2) :
        \A j \in 0..(Len(s) - 2) :
            Gap(s, j) < Gap(s, i) \/ (Gap(s, j) = Gap(s, i) /\ j <= i)

\* one pass of the second while loop: a point is added in the largest gap
YearsInsert ==
    /\ fn = "calculate_year_ranges" /\ pc = "adjust"
    /\ Len(year_ranges) < args.num_points
    /\ IF Len(year_ranges) < 2
       THEN pc' = "raised" /\ ret' = ValueError /\ UNCHANGED year_ranges
       ELSE LET idx == MaxGapIndex(year_ranges)
                new_year == year_ranges[idx + 1] + Gap(year_ranges, idx) \div 2
            IN  /\ year_ranges' = Insert(year_ranges, idx + 1, new_year)
                /\ UNCHANGED <<pc, ret>>
    /\ UNCHANGED <<fn, args, result, appVars, monthly_payment, current_amount, total_months,
                   hist, month, data, min_years_needed, max_years_needed>>

\* both loops are over: sorted(year_ranges) is returned
YearsReturn ==
    /\ fn = "calculate_year_ranges" /\ pc = "adjust"
    /\ Len(year_ranges) = args.num_points
    /\ ret' = SortSeq(year_ranges, LAMBDA a, b : a < b)
    /\ pc' = "done"
    /\ UNCHANGED <<fn, args, result, monthly_payment, loopVars>>

NextYears == YearsBegin \/ YearsSearch \/ YearsWindow \/ YearsPop
                \/ YearsInsert \/ YearsReturn

SpecYears == InitYears /\ [][NextYears]_vars

(***************************************************************************)
(* create_aport_amounts                                                    *)
(***************************************************************************)
\* math.floor
Floor(x) == -Ceil(RNeg(x))

\* the whole number nearest to a number of floor f, given the sign c of
\* (its fractional part - 1/2); a tie goes to the even one
Nearest(f, c) ==
    IF c < 0 THEN f
    ELSE IF c > 0 THEN f + 1
    ELSE IF f % 2 = 0 THEN f ELSE f + 1

HalfEven(y, f) == Nearest(f, RCmp(RMul(RSub(y, RInt(f)), RInt(2)), RInt(1)))

Hundredths(k) == IF k % 100 = 0 THEN RInt(k \div 100) ELSE RFrac(k, 100)

\* round(x, 2): to the nearest hundredth, a tie going to the even one
Round2(x) == Hundredths(HalfEven(RMul(x, RInt(100)), Floor(RMul(x, RInt(100)))))

MaxRatio == 6

HasRoot(x, k) == k = 1 \/ \E a \in 1..MaxRatio : REq(RPow(RInt(a), k), x)

\* x ** (1 / k), for the x that have a whole k-th root of at most MaxRatio
Root(x, k) ==
    IF k = 1 THEN x ELSE RInt(CHOOSE a \in 1..MaxRatio : REq(RPow(RInt(a), k), x))

\* a mutant of BaseAport: rounded down to a multiple of 100
BaseAport_RoundedDown(annual_income) ==
    Floor(RDiv(RMul(RDiv(annual_income, RInt(12)), RFrac(1, 100)), RInt(100))) * 100

\* ceil((monthly_income * 0.01) / 100) * 100
BaseAport(annual_income) ==
    Ceil(RDiv(RMul(RDiv(annual_income, RInt(12)), RFrac(1, 100)), RInt(100))) * 100

\* the progression from base_aport to min_aport, or the exception raised
Progression(base_aport, min_aport, qtd) ==
    IF RLe(min_aport, base_aport)
    THEN IF qtd - 1 = 0 THEN ZeroDivisionError
         ELSE LET step == RDiv(RSub(min_aport, base_aport), RInt(qtd - 1))
              IN  [i \in 1..qtd |->
                      Round2(RAdd(base_aport, RMul(step, RInt(i - 1))))]
    ELSE IF base_aport = Zero \/ qtd - 1 = 0 THEN ZeroDivisionError
         ELSE LET ratio == Root(RDiv(min_aport, base_aport), qtd - 1)
              IN  [i \in 1..qtd |->
                      Round2(RMul(base_aport, RPow(ratio, i - 1)))]

create_aport_amounts(annual_income, min_aport, qtd) ==
    Progression(RInt(BaseAport(annual_income)), min_aport, qtd)

MaxQtd == 4

\* the counts up to MaxQtd and the default of the signature
Qtds == 1..MaxQtd \cup {10}

\* the incomes, minimum contributions and counts for which the ratio of the
\* geometric progression, where one is used, is a whole number
LadderArgs ==
    { a \in [annual_income : {RInt(0), RInt(60000), RInt(120000), RInt(1200000)},
             min_aport : {RInt(-100), RInt(0), RInt(100), RInt(250), RInt(400), RInt(800),
                          RInt(1000), RInt(2500)},
             qtd : Qtds] :
        \/ RLe(a.min_aport, RInt(BaseAport(a.annual_income)))
        \/ BaseAport(a.annual_income) = 0
        \/ HasRoot(RDiv(a.min_aport, RInt(BaseAport(a.annual_income))), a.qtd - 1) }

InitLadder ==
    /\ fn = "create_aport_amounts" /\ args \in LadderArgs
    /\ pc = "call"
    /\ ret = NoValue
    /\ monthly_payment = NoValue
    /\ NoLoop

\* create_aport_amounts, called and returned
AportAmounts ==
    /\ fn = "create_aport_amounts" /\ pc = "call"
    /\ ret' = create_aport_amounts(args.annual_income, args.min_aport, args.qtd)
    /\ pc' = IF ret' = ZeroDivisionError THEN "raised" ELSE "done"
    /\ UNCHANGED <<fn, args, result, monthly_payment, loopVars>>

NextLadder == AportAmounts

SpecLadder == InitLadder /\ [][NextLadder]_vars

(***************************************************************************)
(* BudgetGoal: the dataclass of models/budget_goal.py.  The allocations    *)
(* are the items of the dict in their order, a category and a percentage   *)
(* each; __post_init__ converts, sums, and tests the items one by one.     *)
(***************************************************************************)
MaxCategories == 3

Categories == <<"Investment", "Travel", "Education", "Housing", "Food">>

Percentages == {-10, -5, 0, 30, 50, 60, 100}

\* the dicts of at most MaxCategories items
GoalArgs ==
    { [allocations |-> [i \in 1..n |-> [category |-> Categories[i],
                                        percentage |-> v[i]]]] :
        n \in {k \in 0..MaxCategories : k <= Len(Categories)},
        v \in [1..MaxCategories -> Percentages] }

InitGoal ==
    /\ fn = "BudgetGoal" /\ args \in GoalArgs
    /\ pc = "call"
    /\ ret = NoValue
    /\ monthly_payment = NoValue
    /\ NoLoop

\* a mutant of Float: the percentage is stored as a fraction of 1
Float_Fraction(v) == RFrac(v, 100)

\* float(v), of a whole number
Float(v) == RInt(v)

\* sum(values): from 0, the values added from the first to the last
RECURSIVE Sum(_, _)
Sum(items, n) ==
    IF n = 0 THEN Zero ELSE RAdd(Sum(items, n - 1), items[n].percentage)

\* a mutant of ExceedsAll: a total of 100 is refused too
ExceedsAll_OrEqual(t) == RLe(RInt(100), t)

\* total > 100
ExceedsAll(t) == RLt(RInt(100), t)

\* a mutant of IsNegative: a percentage of 0 is refused too
IsNegative_OrZero(percentage) == RLe(percentage, Zero)

\* percentage < 0
IsNegative(percentage) == RLt(percentage, Zero)

\* self.allocations = {k: float(v) for k, v in self.allocations.items()}
GoalConvert ==
    /\ fn = "BudgetGoal" /\ pc = "call"
    /\ self_allocations' =
           [i \in 1..Len(args.allocations) |->
               [category |-> args.allocations[i].category,
                percentage |-> Float(args.allocations[i].percentage)]]
    /\ pc' = "total"
    /\ UNCHANGED <<fn, args, ret, engineVars, txVars, sessionVars, total, position>>

\* the total and its test
GoalTotal ==
    /\ fn = "BudgetGoal" /\ pc = "total"
    /\ total' = Sum(self_allocations, Len(self_allocations))
    /\ IF ExceedsAll(total')
       THEN pc' = "raised" /\ ret' = ValueError /\ UNCHANGED position
       ELSE pc' = "items" /\ position' = 1 /\ UNCHANGED ret
    /\ UNCHANGED <<fn, args, engineVars, txVars, sessionVars, self_allocations>>

\* one pass of the for loop: the percentage of an item is tested
GoalItem ==
    /\ fn = "BudgetGoal" /\ pc = "items"
    /\ position <= Len(self_allocations)
    /\ IF IsNegative(self_allocations[position].percentage)
       THEN pc' = "raised" /\ ret' = ValueError /\ UNCHANGED position
       ELSE position' = position + 1 /\ UNCHANGED <<pc, ret>>
    /\ UNCHANGED <<fn, args, engineVars, txVars, sessionVars, self_allocations, total>>

\* the loop is over: the object is constructed
GoalConstructed ==
    /\ fn = "BudgetGoal" /\ pc = "items"
    /\ position > Len(self_allocations)
    /\ ret' = [allocations |-> self_allocations]
    /\ pc' = "done"
    /\ UNCHANGED <<fn, args, result, monthly_payment, loopVars>>

NextGoal == GoalConvert \/ GoalTotal \/ GoalItem \/ GoalConstructed

SpecGoal == InitGoal /\ [][NextGoal]_vars

(***************************************************************************)
(* save_budget_goals of budget/set_goals.py, called again and again in a   *)
(* session: BudgetGoal is constructed from the mapping; if that succeeds   *)
(* the session state takes the object and the mapping and the mapping is   *)
(* written by save_budget_state, if it raises ValueError False is returned.*)
(***************************************************************************)
MaxCalls == 3

PyTrue == [py |-> "True"]
PyFalse == [py |-> "False"]

Item(category, percentage) == [category |-> category, percentage |-> percentage]

\* the mappings passed: valid ones with no category in common, one of 100%,
\* the empty one, one of 110% and one with a negative percentage
SessionAllocations ==
    { <<Item("Housing", 60), Item("Food", 40)>>,
      <<Item("Investment", 30)>>,
      <<>>,
      <<Item("Housing", 60), Item("Food", 50)>>,
      <<Item("Housing", -5), Item("Travel", 10)>> }

\* the session before any goal is set
NoGoals == [budget_goal |-> None, budget_goals |-> <<>>]

InitSession ==
    /\ fn = "save_budget_goals" /\ args = NoValue
    /\ pc = "idle"
    /\ ret = NoValue
    /\ monthly_payment = NoValue
    /\ current_amount = NoValue /\ total_months = 0 /\ hist = <<>>
    /\ month = 0 /\ data = <<>>
    /\ min_years_needed = 0 /\ max_years_needed = 0 /\ year_ranges = <<>>
    /\ result = NoValue
    /\ self_allocations = NoValue /\ total = NoValue /\ position = 0
    /\ transaction = NoValue
    /\ session = NoGoals
    /\ saved_goals = NoValue
    /\ caller = NoValue
    /\ calls = <<>>
    /\ NoService

\* save_budget_goals(allocations) is called: BudgetGoal(allocations)
SaveCall ==
    /\ fn = "save_budget_goals" /\ pc = "idle"
    /\ Len(calls) < MaxCalls
    /\ \E allocations \in SessionAllocations :
           /\ args' = [allocations |-> allocations]
           /\ calls' = Append(calls, allocations)
    /\ fn' = "BudgetGoal"
    /\ caller' = "save_budget_goals"
    /\ pc' = "call"
    /\ ret' = NoValue
    /\ self_allocations' = NoValue /\ total' = NoValue /\ position' = 0
    /\ UNCHANGED <<engineVars, txVars, session, saved_goals>>

\* save_budget_state: the goals file is written if the mapping is not empty
Written(budget_goals, file) == IF budget_goals # <<>> THEN budget_goals ELSE file

\* a mutant of Patched: the categories of the old mapping that the new one
\* does not name are kept
Patched_Merged(old, new) ==
    new \o SelectSeq(old, LAMBDA o : \A i \in 1..Len(new) : new[i].category # o.category)

\* st.session_state.budget_goals = allocations
Patched(old, new) == new

\* BudgetGoal returned: the session state is set, the state saved, True
SaveStore ==
    /\ fn = "BudgetGoal" /\ pc = "done" /\ caller = "save_budget_goals"
    /\ session' = [budget_goal |-> ret,
                   budget_goals |-> Patched(session.budget_goals, args.allocations)]
    /\ saved_goals' = Written(args.allocations, saved_goals)
    /\ ret' = PyTrue
    /\ fn' = "save_budget_goals"
    /\ caller' = NoValue
    /\ pc' = "idle"
    /\ UNCHANGED <<args, engineVars, goalVars, txVars, calls>>

\* BudgetGoal raised ValueError: the error is shown, False
SaveRefuse ==
    /\ fn = "BudgetGoal" /\ pc = "raised" /\ caller = "save_budget_goals"
    /\ ret = ValueError
    /\ ret' = PyFalse
    /\ fn' = "save_budget_goals"
    /\ caller' = NoValue
    /\ pc' = "idle"
    /\ UNCHANGED <<args, engineVars, goalVars, txVars, session, saved_goals, calls>>

NextSession == SaveCall \/ NextGoal \/ SaveStore \/ SaveRefuse

SpecSession == InitSession /\ [][NextSession]_vars

(***************************************************************************)
(* Transaction: the dataclass of models/transaction.py.  The generated     *)
(* __init__ assigns the fields, then __post_init__ tests the amount.       *)
(***************************************************************************)
\* ValueError("Amount must be positive")
AmountError == [exc |-> "ValueError", message |-> "Amount must be positive"]

\* datetime.now() when the class was defined, the default of date
ClassDefinedAt == [datetime |-> "class definition"]

\* a str where None is allowed too
Str(s) == [str |-> s]

TransactionArgs ==
    [amount : {RInt(-100), RFrac(-1, 100), Zero, RFrac(1, 100), RInt(50), RInt(100)},
     type : {"income", "expense"},
     category : {"Salary", "Food"},
     description : {Str("Monthly salary"), Str("Groceries"), None}]

InitTransaction ==
    /\ fn = "Transaction" /\ args \in TransactionArgs
    /\ pc = "call"
    /\ ret = NoValue
    /\ monthly_payment = NoValue
    /\ NoLoop

\* a mutant of AmountNegative: an amount of 0 is refused too
AmountNegative_OrZero(amount) == RLe(amount, Zero)

\* self.amount < 0
AmountNegative(amount) == RLt(amount, Zero)

\* the generated __init__: the fields are assigned, date takes its default
TransactionInit ==
    /\ fn = "Transaction" /\ pc = "call"
    /\ transaction' = [amount |-> args.amount, type |-> args.type,
                       category |-> args.category,
                       description |-> args.description,
                       date |-> ClassDefinedAt]
    /\ pc' = "post_init"
    /\ UNCHANGED <<fn, args, ret, engineVars, goalVars, sessionVars>>

\* __post_init__: the test of the amount
TransactionPostInit ==
    /\ fn = "Transaction" /\ pc = "post_init"
    /\ IF AmountNegative(transaction.amount)
       THEN pc' = "raised" /\ ret' = AmountError
       ELSE pc' = "done" /\ ret' = transaction
    /\ UNCHANGED <<fn, args, engineVars, goalVars, txVars, sessionVars>>

NextTransaction == TransactionInit \/ TransactionPostInit

SpecTransaction == InitTransaction /\ [][NextTransaction]_vars

(***************************************************************************)
(* CoinGeckoAPI._make_request of services/coingecko.py: up to max_retries  *)
(* requests; a 429 response is slept on and the loop continues, any other  *)
(* response is returned decoded unless raise_for_status raises; a          *)
(* RequestException is slept on, or answered by an Exception on the last   *)
(* attempt.                                                                *)
(***************************************************************************)
MaxRetries == 3

\* a response of requests.get: its status code and its decoded body
Response(status_code) ==
    [status_code |-> status_code,
     json |-> IF status_code = 200 THEN Str("{...}") ELSE Str("{error}")]

\* requests.exceptions.HTTPError, raised by raise_for_status: it carries the
\* response
HTTPError(response) == [exc |-> "HTTPError", response |-> response]

\* requests.exceptions.ConnectionError or Timeout, raised by requests.get:
\* a RequestException whose response attribute is None
ConnectionError == [exc |-> "ConnectionError", response |-> None]

\* what one requests.get ends in
Answers == { Response(c) : c \in {200, 404, 429, 500} } \cup {ConnectionError}

RequestArgs ==
    { [endpoint |-> "coins/bitcoin/market_chart", max_retries |-> m] :
        m \in 1..MaxRetries }

InitRequest ==
    /\ fn = "_make_request" /\ args \in RequestArgs
    /\ pc = "loop"
    /\ ret = NoValue
    /\ monthly_payment = NoValue
    /\ NoLoop

RateLimitError ==
    [exc |-> "Exception",
     message |-> "Rate limit exceeded. Please try again in a few minutes."]

ApiError(e) == [exc |-> "Exception", message |-> "CoinGecko API error", of |-> e]

\* None has no attribute status_code
AttributeError == [exc |-> "AttributeError"]

\* 2 ** attempt * 30
Backoff(n) == (2 ^ n) * 30

\* response.raise_for_status(): HTTPError for the 4xx and 5xx codes
RaisesForStatus(response) == response.status_code >= 400

\* what line 21 to 32 raise, given what requests.get ended in; None if nothing
Raised(answer) ==
    IF "exc" \in DOMAIN answer THEN answer
    ELSE IF answer.status_code # 429 /\ RaisesForStatus(answer)
         THEN HTTPError(answer)
         ELSE None

\* lines 37 to 39: what the last attempt raises for the exception e
LastRaise(e) ==
    IF e.response = None THEN AttributeError
    ELSE IF e.response.status_code = 429 THEN RateLimitError
    ELSE ApiError(e.exc)

\* one more iteration may begin
InLoop == fn = "_make_request" /\ pc = "loop" /\ attempt < args.max_retries

\* the response has status 429: sleep, continue
RequestLimited ==
    /\ InLoop
    /\ \E answer \in Answers :
           /\ Raised(answer) = None /\ answer.status_code = 429
           /\ responses' = Append(responses, answer)
    /\ slept' = Append(slept, Backoff(attempt))
    /\ attempt' = attempt + 1
    /\ UNCHANGED <<fn, args, pc, ret, restVars, cacheVars>>

\* any other response that raise_for_status lets through: its body is returned
RequestReturn ==
    /\ InLoop
    /\ \E answer \in Answers :
           /\ Raised(answer) = None /\ answer.status_code # 429
           /\ responses' = Append(responses, answer)
           /\ ret' = answer.json
    /\ pc' = "done"
    /\ UNCHANGED <<fn, args, attempt, slept, restVars, cacheVars>>

\* a RequestException before the last attempt: sleep, next attempt
RequestRetry ==
    /\ InLoop
    /\ attempt # args.max_retries - 1
    /\ \E answer \in Answers :
           /\ Raised(answer) # None
           /\ responses' = Append(responses, answer)
    /\ slept' = Append(slept, Backoff(attempt))
    /\ attempt' = attempt + 1
    /\ UNCHANGED <<fn, args, pc, ret, restVars, cacheVars>>

\* a RequestException on the last attempt: an exception leaves the function
RequestRaise ==
    /\ InLoop
    /\ attempt = args.max_retries - 1
    /\ \E answer \in Answers :
           /\ Raised(answer) # None
           /\ responses' = Append(responses, answer)
           /\ ret' = LastRaise(Raised(answer))
    /\ pc' = "raised"
    /\ UNCHANGED <<fn, args, attempt, slept, restVars, cacheVars>>

\* range(max_retries) is used up: the function ends without a return statement
RequestExhausted ==
    /\ fn = "_make_request" /\ pc = "loop"
    /\ ~(attempt < args.max_retries)
    /\ ret' = None
    /\ pc' = "done"
    /\ UNCHANGED <<fn, args, apiVars, restVars, cacheVars>>

NextRequest ==
    \/ RequestLimited
    \/ RequestReturn
    \/ RequestRetry
    \/ RequestRaise
    \/ RequestExhausted

SpecRequest == InitRequest /\ [][NextRequest]_vars

(***************************************************************************)
(* InMemoryCache and CacheManager.get_or_set of services/cache_manager.py, *)
(* used by the worker threads of CoinGeckoAPI.batch_get_market_charts.     *)
(* get, set and clear run their bodies holding self.lock; a thread takes   *)
(* one step at a time, the clock moves on between any two steps.           *)
(***************************************************************************)
MaxThreads == 2
MaxNow == 4

Threads == 1..MaxThreads

Keys == {"market_chart:bitcoin:usd:1", "market_chart:ethereum:usd:1"}

\* ttl_seconds, in ticks of the clock
Ttls == {1, 2}

\* a thread outside the cache code
Idle ==
    [pc |-> "idle", key |-> NoValue, value |-> NoValue,
     timestamp |-> NoValue, now |-> NoValue]

InitCache ==
    /\ fn = "InMemoryCache" /\ args \in { [ttl_seconds |-> t] : t \in Ttls }
    /\ pc = "constructed"
    /\ ret = NoValue
    /\ monthly_payment = NoValue
    /\ current_amount = NoValue /\ total_months = 0 /\ hist = <<>>
    /\ month = 0 /\ data = <<>>
    /\ min_years_needed = 0 /\ max_years_needed = 0 /\ year_ranges = <<>>
    /\ result = NoValue
    /\ self_allocations = NoValue /\ total = NoValue /\ position = 0
    /\ transaction = NoValue
    /\ session = NoValue /\ saved_goals = NoValue
    /\ caller = NoValue /\ calls = <<>>
    /\ attempt = 0 /\ responses = <<>> /\ slept = <<>>
    /\ cache = <<>> /\ timestamps = <<>> /\ lock = None
    /\ now = 1
    /\ threads = [t \in Threads |-> Idle]
    /\ last_set = <<>>

\* d[k] = v of a dict
Put(d, k, v) == [x \in DOMAIN d \cup {k} |-> IF x = k THEN v ELSE d[x]]

\* del d[k] of a dict
Del(d, k) == [x \in DOMAIN d \ {k} |-> d[x]]

\* a float held in a local that may also hold None
Number(x) == [float |-> x]

\* d.get(k)
DictGet(d, k) == IF k \in DOMAIN d THEN Number(d[k]) ELSE None

\* not timestamp
Not(timestamp) == timestamp = None \/ timestamp.float = 0

\* a mutant of Expired: an entry lives one tick longer
Expired_Late(time, timestamp, ttl) == time - timestamp > ttl + 1

\* now - timestamp > self.ttl
Expired(time, timestamp, ttl) == time - timestamp > ttl

\* a mutant of Free: the lock excludes nobody
Free_Always(l) == TRUE

\* with self.lock can be entered
Free(l) == l = None

Held(t) == [held_by |-> t]

\* what getter_func gives: the data, nothing, or an exception
GetterResults == {Str("{prices}"), None, RateLimitError}

\* the thread t moves on, the others stay
Step(t, th) == threads' = [threads EXCEPT ![t] = th]

\* datetime.now() moves on
Tick ==
    /\ fn = "InMemoryCache"
    /\ now < MaxNow
    /\ now' = now + 1
    /\ UNCHANGED <<fn, args, pc, ret, restVars, apiVars, cache, timestamps,
                   lock, threads, last_set>>

\* a worker calls get_or_set(key, getter_func): self.cache.get(key)
CallGetOrSet(t) ==
    /\ fn = "InMemoryCache"
    /\ threads[t].pc = "idle"
    /\ \E key \in Keys : Step(t, [Idle EXCEPT !.pc = "get", !.key = key])
    /\ UNCHANGED <<fn, args, pc, ret, restVars, apiVars, cache, timestamps,
                   lock, now, last_set>>

\* a thread calls clear_cache(): self.cache.clear()
CallClear(t) ==
    /\ fn = "InMemoryCache"
    /\ threads[t].pc = "idle"
    /\ Step(t, [Idle EXCEPT !.pc = "clear"])
    /\ UNCHANGED <<fn, args, pc, ret, restVars, apiVars, cache, timestamps,
                   lock, now, last_set>>

\* with self.lock: of get, set and clear
Acquire(t) ==
    /\ fn = "InMemoryCache"
    /\ threads[t].pc \in {"get", "set", "clear"}
    /\ Free(lock)
    /\ lock' = Held(t)
    /\ Step(t, [threads[t] EXCEPT !.pc = CASE @ = "get" -> "get_lookup"
                                          [] @ = "set" -> "set_cache"
                                          [] @ = "clear" -> "clear_cache"])
    /\ UNCHANGED <<fn, args, pc, ret, restVars, apiVars, cache, timestamps,
                   now, last_set>>

\* get, lines 16 to 25 and 31: the tests, and the value if the entry is fresh
GetLookup(t) ==
    /\ fn = "InMemoryCache"
    /\ threads[t].pc = "get_lookup"
    /\ LET key == threads[t].key
           timestamp == DictGet(timestamps, key)
       IN  IF key \notin DOMAIN cache
           THEN Step(t, [threads[t] EXCEPT !.pc = "get_return",
                                           !.value = None])
           ELSE IF Not(timestamp)
           THEN Step(t, [threads[t] EXCEPT !.pc = "get_return",
                                           !.timestamp = timestamp,
                                           !.value = None])
           ELSE IF Expired(now, timestamp.float, args.ttl_seconds)
           THEN Step(t, [threads[t] EXCEPT !.pc = "get_del_cache",
                                           !.timestamp = timestamp,
                                           !.now = Number(now)])
           ELSE Step(t, [threads[t] EXCEPT !.pc = "get_return",
                                           !.timestamp = timestamp,
                                           !.now = Number(now),
                                           !.value = cache[key]])
    /\ UNCHANGED <<fn, args, pc, ret, restVars, apiVars, cache, timestamps,
                   lock, now, last_set>>

\* raised by del d[k] when k is not a key of d
KeyError == [exc |-> "KeyError"]

\* get, line 27: del self.cache[key]
GetDelCache(t) ==
    /\ fn = "InMemoryCache"
    /\ threads[t].pc = "get_del_cache"
    /\ IF threads[t].key \in DOMAIN cache
       THEN /\ cache' = Del(cache, threads[t].key)
            /\ Step(t, [threads[t] EXCEPT !.pc = "get_del_timestamp"])
       ELSE /\ UNCHANGED cache
            /\ Step(t, [threads[t] EXCEPT !.pc = "get_return",
                                          !.value = KeyError])
    /\ UNCHANGED <<fn, args, pc, ret, restVars, apiVars, timestamps, lock,
                   now, last_set>>

\* get, lines 28 and 29: del self.timestamps[key]; return None
GetDelTimestamp(t) ==
    /\ fn = "InMemoryCache"
    /\ threads[t].pc = "get_del_timestamp"
    /\ IF threads[t].key \in DOMAIN timestamps
       THEN /\ timestamps' = Del(timestamps, threads[t].key)
            /\ Step(t, [threads[t] EXCEPT !.pc = "get_return",
                                          !.value = None])
       ELSE /\ UNCHANGED timestamps
            /\ Step(t, [threads[t] EXCEPT !.pc = "get_return",
                                          !.value = KeyError])
    /\ UNCHANGED <<fn, args, pc, ret, restVars, apiVars, cache, lock, now,
                   last_set>>

\* get leaves the lock and returns; get_or_set, lines 59 and 60
GetReturn(t) ==
    /\ fn = "InMemoryCache"
    /\ threads[t].pc = "get_return"
    /\ lock' = None
    /\ IF threads[t].value = None
       THEN Step(t, [threads[t] EXCEPT !.pc = "getter"])
       ELSE Step(t, Idle)
    /\ UNCHANGED <<fn, args, pc, ret, restVars, apiVars, cache, timestamps,
                   now, last_set>>

\* value is not None
Storable(value) == value # None

\* get_or_set, lines 62 to 65: the getter is called, its value kept if any
Getter(t) ==
    /\ fn = "InMemoryCache"
    /\ threads[t].pc = "getter"
    /\ \E value \in GetterResults :
           IF "exc" \notin DOMAIN value /\ Storable(value)
           THEN Step(t, [threads[t] EXCEPT !.pc = "set", !.value = value])
           ELSE Step(t, Idle)
    /\ UNCHANGED <<fn, args, pc, ret, restVars, apiVars, cache, timestamps,
                   lock, now, last_set>>

\* set, line 36: self.cache[key] = value
SetCache(t) ==
    /\ fn = "InMemoryCache"
    /\ threads[t].pc = "set_cache"
    /\ cache' = Put(cache, threads[t].key, threads[t].value)
    /\ Step(t, [threads[t] EXCEPT !.pc = "set_timestamp"])
    /\ UNCHANGED <<fn, args, pc, ret, restVars, apiVars, timestamps, lock,
                   now, last_set>>

\* set, line 37: self.timestamps[key] = datetime.now().timestamp()
SetTimestamp(t) ==
    /\ fn = "InMemoryCache"
    /\ threads[t].pc = "set_timestamp"
    /\ timestamps' = Put(timestamps, threads[t].key, now)
    /\ last_set' = Put(last_set, threads[t].key,
                       [at |-> now, value |-> threads[t].value])
    /\ Step(t, [threads[t] EXCEPT !.pc = "release"])
    /\ UNCHANGED <<fn, args, pc, ret, restVars, apiVars, cache, lock, now>>

\* clear, line 42: self.cache.clear()
ClearCache(t) ==
    /\ fn = "InMemoryCache"
    /\ threads[t].pc = "clear_cache"
    /\ cache' = <<>>
    /\ last_set' = <<>>
    /\ Step(t, [threads[t] EXCEPT !.pc = "clear_timestamps"])
    /\ UNCHANGED <<fn, args, pc, ret, restVars, apiVars, timestamps, lock,
                   now>>

\* clear, line 43: self.timestamps.clear()
ClearTimestamps(t) ==
    /\ fn = "InMemoryCache"
    /\ threads[t].pc = "clear_timestamps"
    /\ timestamps' = <<>>
    /\ Step(t, [threads[t] EXCEPT !.pc = "release"])
    /\ UNCHANGED <<fn, args, pc, ret, restVars, apiVars, cache, lock, now,
                   last_set>>

\* set and clear leave the lock and return
Release(t) ==
    /\ fn = "InMemoryCache"
    /\ threads[t].pc = "release"
    /\ lock' = None
    /\ Step(t, Idle)
    /\ UNCHANGED <<fn, args, pc, ret, restVars, apiVars, cache, timestamps,
                   now, last_set>>

NextCache ==
    \/ Tick
    \/ \E t \in Threads : CallGetOrSet(t)
    \/ \E t \in Threads : CallClear(t)
    \/ \E t \in Threads : Acquire(t)
    \/ \E t \in Threads : GetLookup(t)
    \/ \E t \in Threads : GetDelCache(t)
    \/ \E t \in Threads : GetDelTimestamp(t)
    \/ \E t \in Threads : GetReturn(t)
    \/ \E t \in Threads : Getter(t)
    \/ \E t \in Threads : SetCache(t)
    \/ \E t \in Threads : SetTimestamp(t)
    \/ \E t \in Threads : ClearCache(t)
    \/ \E t \in Threads : ClearTimestamps(t)
    \/ \E t \in Threads : Release(t)

SpecCache == InitCache /\ [][NextCache]_vars

(***************************************************************************)
(* Properties of the closed forms, checked under SpecFV.                   *)
(***************************************************************************)
Returned(f) == fn = f /\ pc = "done"

IsNumber(v) == v # ZeroDivisionError /\ v # NoValue

IsMultipleOf100(v) == v.s = 0 \/ (v.d = <<1>> /\ Head(v.n) % 100 = 0)

\* C2: for years >= 1 the un-rounded payment c solved for (initial, goal,
\* years, rate) gives calculate_future_value(initial, c, years, rate) = goal
\* within 1e-6 relative tolerance.
C2_PaymentReachesGoal ==
    (Returned("calculate_minimum_aport") /\ args.years >= 1) =>
        /\ IsNumber(monthly_payment)
        /\ WithinTol(calculate_future_value(args.initial_amount, monthly_payment,
                                            args.years, args.annual_return),
                     args.desired_amount)

C2_Witness ==
    /\ Returned("calculate_minimum_aport") /\ args.years >= 1
    /\ RLt(Zero, args.annual_return)
    /\ IsNumber(monthly_payment) /\ RLt(Zero, monthly_payment)
    /\ ~IsMultipleOf100(monthly_payment)

\* C6: for years >= 1 calculate_minimum_aport returns the payment rounded up
\* to a multiple of 100 (a multiple of 100, not below the payment, less than
\* 100 above it), and the future value with it is at least the goal.
C6_RoundedUpNeverUndershoots ==
    (Returned("calculate_minimum_aport") /\ args.years >= 1) =>
        /\ IsNumber(ret) /\ IsNumber(monthly_payment)
        /\ IsMultipleOf100(ret)
        /\ RLe(monthly_payment, ret)
        /\ RLt(RSub(ret, monthly_payment), RInt(100))
        /\ RLe(args.desired_amount,
               calculate_future_value(args.initial_amount, ret, args.years,
                                      args.annual_return))

C6_Witness ==
    /\ Returned("calculate_minimum_aport") /\ args.years >= 1
    /\ IsNumber(ret) /\ RLt(monthly_payment, ret) /\ RLt(Zero, monthly_payment)
    /\ RLt(RSub(ret, monthly_payment), RInt(50))

\* C9: at a zero rate calculate_future_value returns exactly
\* initial + contribution * years * 12, and no division by zero is raised.
C9_ZeroRateLinear ==
    (Returned("calculate_future_value") /\ args.annual_return = Zero) =>
        /\ IsNumber(ret)
        /\ REq(ret, RAdd(args.initial_amount,
                         RMul(args.monthly_aport, RInt(args.years * 12))))

C9_Witness ==
    /\ Returned("calculate_future_value") /\ args.annual_return = Zero
    /\ args.years > 0 /\ RLt(Zero, args.monthly_aport)
    /\ IsNumber(ret) /\ RLt(args.initial_amount, ret)

\* C10: calculate_future_value is non-decreasing in years: the value returned
\* for years y is at most the value for every longer horizon y2 >= y.
C10_MonotoneInYears ==
    Returned("calculate_future_value") =>
        \A y2 \in args.years..MaxYears :
            RLe(ret, calculate_future_value(args.initial_amount, args.monthly_aport,
                                            y2, args.annual_return))

C10_Witness ==
    /\ Returned("calculate_future_value") /\ args.years < MaxYears
    /\ RLt(Zero, args.annual_return) /\ RLt(Zero, args.initial_amount)
    /\ RLt(ret, calculate_future_value(args.initial_amount, args.monthly_aport,
                                       args.years + 1, args.annual_return))

\* C11: calculate_future_value is non-decreasing in the monthly contribution:
\* the value returned for a contribution c is at most the value for every
\* larger contribution c2 >= c, the other arguments being the same.
C11_MonotoneInContribution ==
    Returned("calculate_future_value") =>
        \A a2 \in Aports :
            RLe(args.monthly_aport, RInt(a2)) =>
                RLe(ret, calculate_future_value(args.initial_amount, RInt(a2),
                                                args.years, args.annual_return))

C11_Witness ==
    /\ Returned("calculate_future_value")
    /\ args.years > 0 /\ RLt(Zero, args.annual_return)
    /\ \E a2 \in Aports :
          /\ RLt(args.monthly_aport, RInt(a2))
          /\ RLt(ret, calculate_future_value(args.initial_amount, RInt(a2),
                                             args.years, args.annual_return))

(***************************************************************************)
(* Properties of the loops.                                                *)
(***************************************************************************)
\* C1: the Total Amount of the last row of create_investment_timeline equals
\* calculate_future_value of the same arguments within 1e-6 relative
\* tolerance.
C1_TimelineEndsAtFutureValue ==
    Returned("create_investment_timeline") =>
        WithinTol(ret[Len(ret)].TotalAmount,
                  calculate_future_value(args.initial_amount,
                                         args.monthly_investment,
                                         args.years, args.annual_return))

\* hist holds the simulated balances: hist[j + 1] is the balance after j
\* months of deposit, then interest, starting from initial_amount
HistIsSimulation ==
    /\ hist # <<>>
    /\ hist[1] = args.initial_amount
    /\ \A j \in 1..(Len(hist) - 1) :
           hist[j + 1] = Compound(hist[j], args.monthly_investment,
                                  MonthlyRate(args.annual_return)).amount

\* C4: when calculate_time_to_goal returns a duration, k = years * 12 + months
\* is the smallest number of months at which the simulated balance is at
\* least the goal: every balance before month k is below the goal, and k = 0
\* when initial_amount >= goal_amount.
C4_SmallestMonthCount ==
    (Returned("calculate_time_to_goal") /\ ret # None) =>
        LET k == ret.years * 12 + ret.months
        IN  /\ HistIsSimulation
            /\ Len(hist) = k + 1
            /\ RLe(args.goal_amount, hist[k + 1])
            /\ \A j \in 0..(k - 1) : RLt(hist[j + 1], args.goal_amount)
            /\ RLe(args.goal_amount, args.initial_amount) => k = 0

C4_Witness ==
    /\ Returned("calculate_time_to_goal") /\ ret # None
    /\ ret.years * 12 + ret.months >= 2
    /\ RLt(Zero, args.annual_return)
    /\ RLt(hist[Len(hist) - 1], args.goal_amount)
    /\ RLt(args.goal_amount, hist[Len(hist)])

\* the balances of a returned call never decrease from month to month
HistNonDecreasing ==
    \A j \in 1..(Len(hist) - 1) : RLe(hist[j], hist[j + 1])

C5_StopsAndReports ==
    /\ total_months <= MaxMonths + 1
    /\ Returned("calculate_time_to_goal") =>
           /\ HistIsSimulation /\ HistNonDecreasing
           /\ ret = None <=>
                  /\ Len(hist) > MaxMonths + 1
                  /\ RLt(hist[MaxMonths + 1], args.goal_amount)

\* every pass of the loop either returns or counts one more month
C5_LoopAdvances ==
    pc = "loop" => (pc' = "done" \/ total_months' = total_months + 1)

\* C5: calculate_time_to_goal cannot loop forever, every pass of its loop
\* counting one more month of at most 1201, and it returns None exactly when
\* the simulated balance is still below the goal after 1200 months.
C5_TerminatesWithinLimit == []C5_StopsAndReports /\ [][C5_LoopAdvances]_vars

C5_Witness ==
    /\ Returned("calculate_time_to_goal") /\ ret = None
    /\ total_months = MaxMonths + 1
    /\ args.initial_amount = Zero /\ args.monthly_investment = Zero
    /\ args.annual_return = RFrac(1, 100) /\ args.goal_amount = RInt(1000000)

(***************************************************************************)
(* Properties of the year ranges and of the contribution amounts.          *)
(***************************************************************************)
\* C3: for min_years < max_years and num_points >= 2 the list returned by
\* calculate_year_ranges is strictly ascending: each element is greater than
\* the one before it.
C3_StrictlyAscending ==
    (/\ Returned("calculate_year_ranges")
     /\ args.min_years < args.max_years /\ args.num_points >= 2) =>
        \A i \in 1..(Len(ret) - 1) : ret[i] < ret[i + 1]

\* C8: the list returned by calculate_year_ranges begins with
\* max(min_years, min_years_needed - 5) and ends with
\* min(max_years, min_years_needed + 20).
C8_ContainsWindowEnds ==
    (/\ Returned("calculate_year_ranges")
     /\ args.min_years < args.max_years /\ args.num_points >= 2) =>
        /\ ret[1] = MinRange
        /\ ret[Len(ret)] = MaxRange

\* C7: the amounts returned by create_aport_amounts are in ascending order:
\* each element is at least the one before it.
C7_LadderAscending ==
    Returned("create_aport_amounts") =>
        \A i \in 1..(Len(ret) - 1) : RLe(ret[i], ret[i + 1])

\* C12: every point of the timeline satisfies Total Amount = Total Invested +
\* Total Returns, and its Total Invested is the initial amount plus the
\* monthly contribution times the point's month number.
C12_RowsBalance ==
    Returned("create_investment_timeline") =>
        \A i \in 1..Len(ret) :
            /\ REq(ret[i].TotalAmount,
                   RAdd(ret[i].TotalInvested, ret[i].TotalReturns))
            /\ REq(ret[i].TotalInvested,
                   RAdd(args.initial_amount,
                        RMul(args.monthly_investment, RInt(ret[i].Month))))

C12_Witness ==
    /\ Returned("create_investment_timeline")
    /\ RLt(Zero, args.monthly_investment)
    /\ \E i \in 1..Len(ret) :
           /\ ret[i].Month > 0
           /\ RLt(Zero, ret[i].TotalReturns)
           /\ RLt(args.initial_amount, ret[i].TotalInvested)

\* C16: create_investment_timeline returns exactly years * 12 + 1 points,
\* their Month running 0, 1, ..., years * 12 in order, and the month-0 point
\* is (initial amount, initial amount, 0, 0).
C16_PointsInOrder ==
    Returned("create_investment_timeline") =>
        /\ Len(ret) = args.years * 12 + 1
        /\ \A i \in 1..Len(ret) : ret[i].Month = i - 1
        /\ REq(ret[1].TotalAmount, args.initial_amount)
        /\ REq(ret[1].TotalInvested, args.initial_amount)
        /\ REq(ret[1].TotalReturns, Zero)
        /\ REq(ret[1].MonthlyReturn, Zero)

C16_Witness ==
    /\ Returned("create_investment_timeline")
    /\ args.years = MaxYears
    /\ Len(ret) = MaxYears * 12 + 1
    /\ ret[Len(ret)].Month = MaxYears * 12

\* C13: the timeline and calculate_time_to_goal follow the same trajectory:
\* for the same initial amount, contribution and rate, the balance of the
\* time-to-goal loop after each month is the Total Amount of the timeline
\* point of that month, and the final amount and total invested returned
\* after k months are the Total Amount and Total Invested of the point at
\* month k.
C13_SameTrajectory ==
    (Returned("create_investment_timeline") /\ result # NoValue) =>
        LET k == result.years * 12 + result.months
        IN  /\ k + 1 <= Len(ret)
            /\ Len(hist) = k + 1
            /\ \A i \in 1..Len(hist) : REq(ret[i].TotalAmount, hist[i])
            /\ ret[k + 1].Month = k
            /\ REq(ret[k + 1].TotalAmount, result.current_amount)
            /\ REq(ret[k + 1].TotalInvested, result.total_invested)

C13_Witness ==
    /\ Returned("create_investment_timeline") /\ result # NoValue
    /\ result.years >= 1 /\ result.months > 0
    /\ RLt(Zero, args.annual_return)
    /\ RLt(result.total_invested, result.current_amount)
    /\ REq(ret[result.years * 12 + result.months + 1].TotalAmount,
           result.current_amount)

\* the call satisfies min_years < max_years and num_points >= 2
YearsPrecondition ==
    /\ fn = "calculate_year_ranges"
    /\ args.min_years < args.max_years
    /\ args.num_points >= 2

\* the points made from the window, before any is removed or added
WindowPoints ==
    RangeList(MinRange, MaxRange,
              Max((MaxRange - MinRange) \div (args.num_points - 1), 1))

\* how far the loop of the current place is from its end
YearsDistance ==
    CASE pc = "search" -> max_years_needed - min_years_needed
      [] pc = "adjust" -> Abs(Len(year_ranges) - args.num_points)
      [] OTHER -> 0

C14_NoFailure ==
    YearsPrecondition =>
        /\ pc # "raised"
        /\ YearsDistance >= 0
        /\ pc = "done" => Len(ret) = args.num_points

C14_LoopsAdvance ==
    YearsPrecondition =>
        /\ <<pc, pc'>> \in {<<"call", "search">>, <<"search", "search">>,
                            <<"search", "adjust">>, <<"adjust", "adjust">>,
                            <<"adjust", "done">>}
        /\ pc' = pc => YearsDistance' < YearsDistance

\* C14: for every input with min_years < max_years and num_points >= 2,
\* calculate_year_ranges terminates (every pass of the binary search, of the
\* removal loop and of the insertion loop brings its loop nearer to its end,
\* whose distance is never negative, and no step fails) and the list it
\* returns has exactly num_points elements.
C14_TerminatesWithNumPoints == []C14_NoFailure /\ [][C14_LoopsAdvance]_vars

C14_Witness ==
    /\ YearsPrecondition /\ Returned("calculate_year_ranges")
    /\ Len(WindowPoints) > args.num_points + 1
    /\ Len(ret) = args.num_points

\* C15: every element of the list returned by calculate_year_ranges lies in
\* [min_years, max_years], after any removals and insertions.
C15_WithinBounds ==
    Returned("calculate_year_ranges") =>
        \A i \in 1..Len(ret) :
            args.min_years <= ret[i] /\ ret[i] <= args.max_years

C15_Witness ==
    /\ Returned("calculate_year_ranges")
    /\ min_years_needed - 5 < args.min_years
    /\ ret[1] = args.min_years
    /\ Len(WindowPoints) # args.num_points

\* b is 1% of the monthly income rounded up to the next multiple of 100
IsBaseline(b, annual_income) ==
    LET one_percent == RDiv(annual_income, RInt(1200))
    IN  /\ Ceil(RDiv(b, RInt(100))) = Floor(RDiv(b, RInt(100)))
        /\ RLe(one_percent, b)
        /\ RLt(RSub(b, RInt(100)), one_percent)

\* C17: the ladder returned by create_aport_amounts spans from the baseline
\* to at least the minimum required contribution: its first element is the
\* baseline (1% of the monthly income rounded up to the next multiple of 100)
\* and its largest element is at least the min_aport passed in.
C17_SpansBaselineToMinimum ==
    Returned("create_aport_amounts") =>
        /\ IsBaseline(ret[1], args.annual_income)
        /\ \E i \in 1..Len(ret) : RLe(args.min_aport, ret[i])

C17_Witness ==
    /\ Returned("create_aport_amounts")
    /\ Len(ret) >= 3
    /\ REq(ret[1], RInt(100))
    /\ RLt(ret[1], args.min_aport)
    /\ REq(ret[Len(ret)], args.min_aport)

\* C18: create_aport_amounts returns exactly qtd amounts for every qtd >= 1
\* and every income and min_aport, qtd = 1 and an income of 0 included, and
\* never fails.
C18_ReturnsCount ==
    (fn = "create_aport_amounts" /\ pc # "call") =>
        /\ pc = "done"
        /\ Len(ret) = args.qtd

\* desired_amount - initial_amount * (1 + annual_return) ** years <= 0: the
\* principal alone reaches the goal
GoalAlreadyMet ==
    RLe(RSub(args.desired_amount,
             RMul(args.initial_amount,
                  RPow(RAdd(RInt(1), args.annual_return), args.years))),
        Zero)

\* C19: calculate_minimum_aport does not clamp: whenever the future value of
\* the principal alone meets or exceeds the goal, it returns a value <= 0,
\* never a positive contribution, and a payment below -100 is returned as a
\* negative value, not replaced by a placeholder.
C19_NoClamp ==
    (Returned("calculate_minimum_aport") /\ args.years >= 1 /\ GoalAlreadyMet) =>
        /\ IsNumber(ret)
        /\ RLe(ret, Zero)
        /\ RLe(monthly_payment, RInt(-100)) => RLt(ret, Zero)
        /\ RLt(RSub(ret, monthly_payment), RInt(100))

C19_Witness ==
    /\ Returned("calculate_minimum_aport") /\ args.years >= 1 /\ GoalAlreadyMet
    /\ RLt(Zero, args.annual_return)
    /\ RLt(monthly_payment, RInt(-100))
    /\ RLt(ret, Zero)

\* the sum of the percentages given, as whole numbers
RECURSIVE GivenTotal(_, _)
GivenTotal(items, n) ==
    IF n = 0 THEN 0 ELSE GivenTotal(items, n - 1) + items[n].percentage

\* the sum of the percentages given is at most 100 and none is negative
ValidAllocations ==
    /\ GivenTotal(args.allocations, Len(args.allocations)) <= 100
    /\ \A i \in 1..Len(args.allocations) : args.allocations[i].percentage >= 0

\* C20: constructing a BudgetGoal succeeds if and only if the sum of its
\* percentages is at most 100 and no percentage is negative; otherwise the
\* construction raises ValueError and no object is produced.
C20_ConstructedIffValid ==
    (fn = "BudgetGoal" /\ pc \in {"done", "raised"}) =>
        /\ pc = "done" <=> ValidAllocations
        /\ pc = "done" =>
               /\ ret # ValueError
               /\ Len(ret.allocations) = Len(args.allocations)
               /\ \A i \in 1..Len(args.allocations) :
                      REq(ret.allocations[i].percentage,
                          RInt(args.allocations[i].percentage))
        /\ pc = "raised" => ret = ValueError

C20_Witness ==
    /\ fn = "BudgetGoal" /\ pc = "raised" /\ ret = ValueError
    /\ GivenTotal(args.allocations, Len(args.allocations)) = 110
    /\ \A i \in 1..Len(args.allocations) : args.allocations[i].percentage > 0

\* C21: an engine operation called with a negative amount, a negative annual
\* rate or non-positive years where positivity is required fails with an
\* error; it never returns a result computed from such input.
C21_FailsFast ==
    (InvalidInput(fn, args) /\ pc = "done") =>
        ret \in {ZeroDivisionError, ValueError}

\* C22: a BudgetGoal constructed from a valid allocation mapping holds
\* exactly that mapping: the same categories, each with the percentage given,
\* nothing added, dropped or rescaled.
C22_HoldsTheMapping ==
    (fn = "BudgetGoal" /\ pc = "done") =>
        /\ DOMAIN ret = {"allocations"}
        /\ Len(ret.allocations) = Len(args.allocations)
        /\ \A i \in 1..Len(args.allocations) :
               /\ ret.allocations[i].category = args.allocations[i].category
               /\ REq(ret.allocations[i].percentage,
                      RFrac(args.allocations[i].percentage * 10, 10))

C22_Witness ==
    /\ fn = "BudgetGoal" /\ pc = "done"
    /\ Len(ret.allocations) = MaxCategories
    /\ \A i \in 1..Len(ret.allocations) : RLt(Zero, ret.allocations[i].percentage)
    /\ REq(total, RInt(90))

RECURSIVE YearByYear(_, _, _)
YearByYear(principal, annual_return, years) ==
    IF years = 0 THEN principal
    ELSE LET before == YearByYear(principal, annual_return, years - 1)
         IN  RAdd(before, RMul(before, annual_return))

ReachedIn(y) ==
    RLe(args.desired_amount,
        calculate_future_value(args.initial_amount,
                               RMul(args.monthly_income, RFrac(5, 10)),
                               y, args.annual_return))

\* C25: when the binary search of calculate_year_ranges has ended,
\* min_years_needed is the smallest year of [min_years, max_years] in which
\* the future value with half the monthly income reaches the desired amount,
\* and max_years when no year of the range does; every pass of the search
\* narrows the range, which never becomes empty, so that the search ends.
C25_SearchResult ==
    (fn = "calculate_year_ranges" /\ pc = "search" /\ pc' # "search"
     /\ args.min_years <= args.max_years) =>
        LET reaching == {y \in args.min_years..args.max_years : ReachedIn(y)}
        IN  IF reaching = {}
            THEN min_years_needed = args.max_years
            ELSE /\ min_years_needed \in reaching
                 /\ \A y \in reaching : min_years_needed <= y

C25_SearchNarrows ==
    (fn = "calculate_year_ranges" /\ pc = "search" /\ pc' = "search") =>
        /\ min_years_needed <= min_years_needed'
        /\ max_years_needed' <= max_years_needed
        /\ min_years_needed' <= max_years_needed'
        /\ max_years_needed' - min_years_needed'
               < max_years_needed - min_years_needed

C25_SmallestReachingYear == [][C25_SearchResult /\ C25_SearchNarrows]_vars

C25_Witness ==
    /\ fn = "calculate_year_ranges" /\ pc = "adjust"
    /\ args.min_years < min_years_needed /\ min_years_needed < args.max_years
    /\ ReachedIn(min_years_needed) /\ ~ReachedIn(min_years_needed - 1)
    /\ RLt(Zero, args.annual_return)

\* C26: for every input of the goal form the final amount reported by
\* calculate_required_monthly_investment, the months simulated with the
\* payment it computed, is at least the goal amount, a negative payment
\* included.
C26_FinalAmountReachesGoal ==
    Returned("calculate_required_monthly_investment") =>
        RLe(args.goal_amount, ret.current_amount)

\* the sum of the percentages of a mapping is at most 100, none is negative
ValidMapping(allocations) ==
    /\ GivenTotal(allocations, Len(allocations)) <= 100
    /\ \A i \in 1..Len(allocations) : allocations[i].percentage >= 0

\* the last valid mapping among the first n passed, None if there is none
RECURSIVE LastValid(_, _)
LastValid(passed, n) ==
    IF n = 0 THEN None
    ELSE IF ValidMapping(passed[n]) THEN [mapping |-> passed[n]]
    ELSE LastValid(passed, n - 1)

\* between calls the session holds the most recent valid mapping, and the
\* BudgetGoal built from it, and nothing else
SessionHoldsLastValid ==
    (fn = "save_budget_goals" /\ pc = "idle") =>
        LET last == LastValid(calls, Len(calls))
        IN  IF last = None THEN session = NoGoals
            ELSE /\ session.budget_goals = last.mapping
                 /\ Len(session.budget_goal.allocations) = Len(last.mapping)
                 /\ \A i \in 1..Len(last.mapping) :
                        /\ session.budget_goal.allocations[i].category
                               = last.mapping[i].category
                        /\ REq(session.budget_goal.allocations[i].percentage,
                               RInt(last.mapping[i].percentage))

\* a call returns True or False; False for an invalid mapping, the session
\* state then left as it was
SaveReturns ==
    (fn' = "save_budget_goals" /\ fn = "BudgetGoal") =>
        /\ ret' \in {PyTrue, PyFalse}
        /\ ret' = PyFalse <=> ~ValidMapping(args.allocations)
        /\ ret' = PyFalse => UNCHANGED <<session, saved_goals>>

\* C27: after any sequence of save_budget_goals calls the session's
\* budget_goal is the BudgetGoal built from the most recent valid mapping and
\* budget_goals is that mapping, replaced wholesale; a call with an invalid
\* mapping returns False and leaves budget_goal and budget_goals unchanged.
C27_SessionReplacedWholesale ==
    []SessionHoldsLastValid /\ [][SaveReturns]_vars

C27_Witness ==
    /\ fn = "save_budget_goals" /\ pc = "idle"
    /\ Len(calls) = 3
    /\ ValidMapping(calls[1]) /\ ValidMapping(calls[2]) /\ ~ValidMapping(calls[3])
    /\ calls[1] # calls[2] /\ calls[2] # <<>>
    /\ ret = PyFalse
    /\ session.budget_goals = calls[2]


(***************************************************************************)
(* Properties of _make_request, checked under SpecRequest.                 *)
(***************************************************************************)
\* every request so far was answered with HTTP 429
AllLimited ==
    \A i \in 1..Len(responses) :
        Raised(responses[i]) = None /\ responses[i].status_code = 429

\* the call ended by returning the body of its last, successful response
ReturnedJson ==
    /\ pc = "done"
    /\ Len(responses) > 0
    /\ Raised(responses[Len(responses)]) = None
    /\ responses[Len(responses)].status_code # 429
    /\ ret = responses[Len(responses)].json

\* C28: a call of _make_request issues at most max_retries HTTP requests and
\* ends either by returning the decoded JSON body of a successful response
\* or by raising an exception; when every attempt was answered with HTTP 429
\* it raises the rate-limit error, it does not return without data.
C28_JsonOrException ==
    fn = "_make_request" =>
        /\ Len(responses) <= args.max_retries
        /\ pc \in {"done", "raised"} =>
               /\ ReturnedJson \/ (pc = "raised" /\ "exc" \in DOMAIN ret)
               /\ AllLimited => (pc = "raised" /\ ret = RateLimitError)


(***************************************************************************)
(* Properties of the cache, checked under SpecCache.                       *)
(***************************************************************************)
\* the thread is at the return of get, still holding the lock
AtGetReturn(t) == threads[t].pc = "get_return" /\ lock = Held(t)

\* the get of thread t found its entry older than ttl seconds
FoundExpired(t) ==
    /\ AtGetReturn(t)
    /\ threads[t].now # NoValue
    /\ threads[t].now.float - threads[t].timestamp.float > args.ttl_seconds

\* get returns a value only if it is the one of the last set of the key, no
\* clear came since, and the set is at most ttl seconds old
FreshOnly ==
    \A t \in Threads :
        (AtGetReturn(t) /\ threads[t].value # None) =>
            /\ threads[t].key \in DOMAIN last_set
            /\ threads[t].value = last_set[threads[t].key].value
            /\ threads[t].now.float - last_set[threads[t].key].at
                   <= args.ttl_seconds

\* a get that found its entry expired returns None and has removed the key
\* from both maps
ExpiredRemoved ==
    \A t \in Threads :
        FoundExpired(t) =>
            /\ threads[t].value = None
            /\ threads[t].key \notin DOMAIN cache
            /\ threads[t].key \notin DOMAIN timestamps

\* C29: InMemoryCache.get(key) returns a value only if the most recent
\* set(key) happened no more than ttl seconds before the get and no clear()
\* happened since; once an entry has expired, get returns None and removes
\* the key from the value map and from the timestamp map, so that no later
\* get returns the expired value.
C29_ExpiresAfterTtl ==
    fn = "InMemoryCache" => (FreshOnly /\ ExpiredRemoved)

\* a get found an entry set earlier expired, and has removed it
C29_Witness ==
    /\ fn = "InMemoryCache"
    /\ \E t \in Threads :
           /\ FoundExpired(t)
           /\ threads[t].value = None
           /\ threads[t].key \notin DOMAIN cache
           /\ DOMAIN cache # {}

\* C30: whatever the interleaving of the get, set and clear calls of the
\* threads, whenever nobody holds the lock the value map and the timestamp
\* map have the same keys, and no value stored is None.
C30_MapsAgreeOutsideLock ==
    fn = "InMemoryCache" =>
        /\ lock = None => DOMAIN cache = DOMAIN timestamps
        /\ \A k \in DOMAIN cache : cache[k] # None

\* one thread is between the two assignments of set, the maps differ, and
\* another thread waits for the lock
C30_Witness ==
    /\ fn = "InMemoryCache"
    /\ \E t \in Threads, u \in Threads :
           /\ t # u
           /\ lock = Held(t)
           /\ threads[t].pc = "set_timestamp"
           /\ DOMAIN cache # DOMAIN timestamps
           /\ threads[u].pc \in {"get", "set", "clear"}

====
